---- MODULE Spec2Model ----
(***************************************************************************)
(* Trade Opportunities API: the sliding-window rate limiter                *)
(* (app/rate_limit.py) and the request handler of /analyze/{sector} and    *)
(* /analyze/{sector}/markdown (app/main.py) with the two upstream          *)
(* collaborators it calls (app/search.py, app/analysis.py).                *)
(*                                                                         *)
(* Time is the wall clock read by datetime.now(), in ticks; a handler is   *)
(* split into steps at its await points, and the steps of the requests in  *)
(* flight interleave.                                                      *)
(*                                                                         *)
(* Not modelled: POST /token and the sessions map it fills (the handler    *)
(* only adds a counter to it), the HTTPBearer dependency that rejects a    *)
(* request without an Authorization header before the handler runs, and    *)
(* the texts of a record or a report beyond the fields kept below.         *)
(***************************************************************************)
EXTENDS Integers, Sequences, FiniteSets, TLC

VARIABLES
    now,        \* wall clock (datetime.now())
    settings,   \* app.config.settings: the fields the handler reads
    requests,   \* RateLimiter.requests: key -> list of timestamps
    req,        \* the requests in flight, one per slot
    log,        \* history: key -> every check made, with its time and outcome
    arrivals    \* history: number of requests received so far

vars == <<now, settings, requests, req, log, arrivals>>

-----------------------------------------------------------------------------
(* Bounds *)

MaxTime == 3        \* the clock stops ticking here
MaxQuota == 2       \* rate_limit_requests ranges over 1..MaxQuota
MaxPeriod == 2      \* rate_limit_period ranges over 1..MaxPeriod
MaxSequential == 2  \* requests received in one behaviour of Spec
MaxChecks == 4      \* requests received in one behaviour of SpecLimiter
MaxRequests == 3    \* requests received in one behaviour of SpecConcurrent
MaxInflight == 2    \* requests in flight at the same time
MaxResults == 6     \* longest result list the search provider returns

Slots == 1..MaxInflight

-----------------------------------------------------------------------------
(* app/config.py *)

AllowedSectors ==
    {"pharmaceuticals", "technology", "agriculture", "automobile", "banking",
     "renewable-energy", "real-estate", "manufacturing", "retail"}

SettingsSpace ==
    [rate_limit_requests : 1..MaxQuota,
     rate_limit_period   : 1..MaxPeriod,
     gemini_api_key      : BOOLEAN]

-----------------------------------------------------------------------------
(* app/auth.py *)

fake_users_db == {"guest", "trader"}

NoToken == [valid |-> FALSE, sub |-> ""]

\* Bearer tokens: a token that decodes (signature and expiry) or not, and
\* the "sub" claim it carries ("" for a payload without one).
Tokens ==
    {[valid |-> TRUE,  sub |-> "guest"],
     [valid |-> TRUE,  sub |-> "trader"],
     [valid |-> TRUE,  sub |-> "nobody"],
     [valid |-> TRUE,  sub |-> ""],
     [valid |-> FALSE, sub |-> "guest"]}

\* get_current_user: the user, or raised (credentials_exception).
get_current_user(token) ==
    IF ~token.valid THEN [raised |-> TRUE, username |-> ""]
    ELSE IF token.sub = "" THEN [raised |-> TRUE, username |-> ""]
    ELSE IF token.sub \notin fake_users_db THEN [raised |-> TRUE, username |-> ""]
    ELSE [raised |-> FALSE, username |-> token.sub]

-----------------------------------------------------------------------------
(* app/rate_limit.py *)

Hosts == {"10.0.0.1", "10.0.0.2"}

\* f"{current_user.username}_{request.client.host}": the user names of
\* fake_users_db hold no underscore, so the string determines the pair.
user_identifier(username, host) == <<username, host>>

Keys == {user_identifier(u, h) : u \in fake_users_db, h \in Hosts}

WithinWindow_late(t, req_time) == t - req_time <= settings.rate_limit_period

\* now - req_time < timedelta(seconds=settings.rate_limit_period)
WithinWindow(t, req_time) == t - req_time < settings.rate_limit_period

ExceedsLimit_off(n) == n > settings.rate_limit_requests

\* len(self.requests[key]) >= settings.rate_limit_requests
ExceedsLimit(n) == n >= settings.rate_limit_requests

RECURSIVE Flatten(_, _)
Flatten(f, ks) ==
    IF ks = {} THEN <<>>
    ELSE LET k == CHOOSE x \in ks : TRUE IN f[k] \o Flatten(f, ks \ {k})

Stored_shared(key) == Flatten(requests, Keys)

\* self.requests[key] (a defaultdict: an unseen key reads as the empty list)
Stored(key) == requests[key]

\* The list comprehension that drops the old timestamps.
Cleaned(key, t) == SelectSeq(Stored(key), LAMBDA req_time : WithinWindow(t, req_time))

\* RateLimiter.is_rate_limited: the value returned at time t.
is_rate_limited(key, t) == ExceedsLimit(Len(Cleaned(key, t)))

requests_after_recording(key, t) ==
    [requests EXCEPT ![key] = Append(Cleaned(key, t), t)]

\* RateLimiter.is_rate_limited: self.requests after the call at time t.
requests_after(key, t) ==
    [requests EXCEPT ![key] =
        IF is_rate_limited(key, t) THEN Cleaned(key, t)
        ELSE Append(Cleaned(key, t), t)]

-----------------------------------------------------------------------------
(* app/search.py *)

\* A raw result of the search provider: a dict with its title, body and
\* maybe source, date and href ("" for a key it has not), or a value that
\* is not a dict.
Raw(i) ==
    [kind |-> "dict", title |-> ToString(i), source |-> "Reuters",
     body |-> "body " \o ToString(i), date |-> "2024-05-01",
     href |-> "https://example.org/" \o ToString(i)]
RawNoSource(i) == [Raw(i) EXCEPT !.source = "", !.date = "", !.href = ""]
RawMalformed == [kind |-> "str", title |-> "", source |-> "", body |-> "", date |-> "", href |-> ""]

Ascending(k) == IF k = 0 THEN <<>> ELSE [i \in 1..k |-> Raw(i)]
Descending(k) == IF k = 0 THEN <<>> ELSE [i \in 1..k |-> Raw(k + 1 - i)]

NoProvider == [fail |-> FALSE, results |-> <<>>, called |-> FALSE]
ProviderFails == [fail |-> TRUE, results |-> <<>>, called |-> TRUE]
ProviderReturns(rs) == [fail |-> FALSE, results |-> rs, called |-> TRUE]

\* What DDGS().text(query, max_results) does: it raises, or returns a list.
ProviderOutcomes ==
    {ProviderFails}
    \cup {ProviderReturns(Ascending(k)) : k \in 0..MaxResults}
    \cup {ProviderReturns(Descending(MaxResults)),
          ProviderReturns(<<Raw(1), RawMalformed, Raw(3)>>),
          ProviderReturns(<<RawNoSource(2), Raw(1)>>)}

\* MarketData(title=result.get('title', ''), source=result.get('source', 'Unknown'),
\*            snippet=result.get('body', ''), date=result.get('date', 'Recent'),
\*            url=result.get('href', ''))
MarketData(result) ==
    [title   |-> result.title,
     source  |-> IF result.source = "" THEN "Unknown" ELSE result.source,
     snippet |-> result.body,
     date    |-> IF result.date = "" THEN "Recent" ELSE result.date,
     url     |-> result.href]

\* sector.title() on the sector names of the model.
Title(sector) ==
    CASE sector = "technology" -> "Technology"
      [] sector = "banking" -> "Banking"
      [] sector = "pharmaceuticals" -> "Pharmaceuticals"
      [] sector = "agriculture" -> "Agriculture"
      [] OTHER -> sector

\* get_fallback_data: one canned record for the three sectors of the table,
\* one generic record naming the sector otherwise.
get_fallback_data(sector) ==
    IF sector = "pharmaceuticals"
    THEN <<[title |-> "Indian Pharma Sector Growth Outlook 2024", source |-> "Industry Report",
            snippet |-> "Indian pharmaceutical sector expected to grow at 8-10% CAGR",
            date |-> "2024", url |-> ""]>>
    ELSE IF sector = "technology"
    THEN <<[title |-> "India Tech Sector: AI and Digital Transformation", source |-> "Tech Analysis",
            snippet |-> "Technology sector in India seeing increased investment",
            date |-> "2024", url |-> ""]>>
    ELSE IF sector = "agriculture"
    THEN <<[title |-> "Agricultural Sector Modernization Trends", source |-> "Agri Report",
            snippet |-> "Precision farming and organic exports driving growth",
            date |-> "2024", url |-> ""]>>
    ELSE <<[title |-> Title(sector) \o " Sector Analysis", source |-> "Market Intelligence",
            snippet |-> "Current trends and opportunities in the " \o sector \o " sector.",
            date |-> "2024", url |-> ""]>>

\* result.get(...) raises AttributeError on a result that is not a dict.
MappingRaises(results) == \E i \in 1..Len(results) : results[i].kind # "dict"

\* search_market_data: the list returned for what the provider did. The
\* except clause replaces anything raised in the try block by the fallback.
search_market_data(sector, outcome) ==
    IF outcome.fail \/ MappingRaises(outcome.results)
    THEN [raised |-> FALSE, market_data |-> get_fallback_data(sector)]
    ELSE [raised |-> FALSE,
          market_data |-> [i \in DOMAIN outcome.results |-> MarketData(outcome.results[i])]]

-----------------------------------------------------------------------------
(* app/analysis.py *)

AnalysisKeys == {"summary", "market_trends", "trade_opportunities", "risks"}
OpportunityKeys == {"opportunity", "reasoning", "risk_level", "time_horizon"}

\* A trade opportunity as a JSON object: the keys it has, and two of its values.
Opportunity(ks, risk, horizon) == [keys |-> ks, risk_level |-> risk, time_horizon |-> horizon]

\* A JSON value: an object with some of the four keys of the prompt's
\* schema, or a value of another JSON type (a list).
JsonObject(ks, summary, trends, opps, risks) ==
    [type |-> "dict", keys |-> ks, summary |-> summary, market_trends |-> trends,
     trade_opportunities |-> opps, risks |-> risks]
JsonList == [type |-> "list", keys |-> {}, summary |-> <<>>, market_trends |-> <<>>,
             trade_opportunities |-> <<>>, risks |-> <<>>]
NoAnalysis == [type |-> "none", keys |-> {}, summary |-> <<>>, market_trends |-> <<>>,
               trade_opportunities |-> <<>>, risks |-> <<>>]

\* generate_mock_analysis: five trends, two opportunities, four risks.
generate_mock_analysis(sector) ==
    JsonObject(AnalysisKeys,
        <<"The", sector, "sector in India shows promising growth potential">>,
        <<"Growing demand in " \o sector \o " services", "Increased foreign investment",
          "Government policy support", "Technology integration", "Export opportunities">>,
        <<Opportunity(OpportunityKeys, "medium", "medium-term"),
          Opportunity(OpportunityKeys, "low", "long-term")>>,
        <<"Regulatory changes", "Market volatility", "Global economic factors",
          "Competition intensity">>)

\* Answers of the model that follow the schema of the prompt, and not.
ModelAnalysis ==
    JsonObject(AnalysisKeys, <<"model summary">>, <<"t1", "t2", "t3">>,
        <<Opportunity(OpportunityKeys, "high", "short-term"),
          Opportunity(OpportunityKeys, "low", "long-term"),
          Opportunity(OpportunityKeys, "medium", "medium-term")>>,
        <<"r1", "r2", "r3">>)
PartialAnalysis ==
    JsonObject({"summary"}, <<"model summary">>, <<>>, <<>>, <<>>)
BadOpportunityAnalysis ==
    JsonObject(AnalysisKeys, <<"model summary">>, <<"t1", "t2", "t3">>,
        <<Opportunity({"opportunity", "reasoning"}, "", "")>>, <<"r1", "r2", "r3">>)

\* The schema the prompt asks for: an object with the four keys, every
\* opportunity with its four keys.
Conforms(v) ==
    /\ v.type = "dict"
    /\ v.keys = AnalysisKeys
    /\ \A i \in 1..Len(v.trade_opportunities) :
          v.trade_opportunities[i].keys = OpportunityKeys

\* response.text as a sequence of pieces: an opening or closing fence
\* "```", a fence with its tag "```json", a JSON document, other text.
Fence == [tok |-> "fence", val |-> NoAnalysis]
FenceJson == [tok |-> "fence_json", val |-> NoAnalysis]
Prose == [tok |-> "prose", val |-> NoAnalysis]
Json(v) == [tok |-> "json", val |-> v]

NoGemini == [fail |-> FALSE, text |-> <<>>, called |-> FALSE]
GeminiFails == [fail |-> TRUE, text |-> <<>>, called |-> TRUE]
GeminiAnswers(text) == [fail |-> FALSE, text |-> text, called |-> TRUE]

\* What model.generate_content(prompt) and response.text do: raise, or yield text.
GeminiOutcomes ==
    {GeminiFails,
     GeminiAnswers(<<Json(ModelAnalysis)>>),
     GeminiAnswers(<<Prose, FenceJson, Json(ModelAnalysis), Fence, Prose>>),
     GeminiAnswers(<<Fence, Json(ModelAnalysis), Fence>>),
     GeminiAnswers(<<Fence, Prose, Fence, FenceJson, Json(ModelAnalysis), Fence>>),
     GeminiAnswers(<<Prose>>),
     GeminiAnswers(<<Json(ModelAnalysis), Prose>>),
     GeminiAnswers(<<Json(JsonList)>>),
     GeminiAnswers(<<FenceJson, Json(PartialAnalysis), Fence>>),
     GeminiAnswers(<<Json(BadOpportunityAnalysis)>>)}

\* '```json' in response_text; '```' in response_text (true of "```json" too).
HasJsonFence(text) == \E i \in 1..Len(text) : text[i].tok = "fence_json"
HasFence(text) == \E i \in 1..Len(text) : text[i].tok \in {"fence", "fence_json"}

\* text.split(sep)[1].split('```')[0]: what follows the first sep, up to
\* the next fence or the end of the text.
AfterFirst(text, seps) ==
    LET first == CHOOSE i \in 1..Len(text) :
                    /\ text[i].tok \in seps
                    /\ \A j \in 1..(i - 1) : text[j].tok \notin seps
        rest == SubSeq(text, first + 1, Len(text))
        stops == {i \in 1..Len(rest) : rest[i].tok \in {"fence", "fence_json"}}
        stop == IF stops = {} THEN Len(rest) + 1
                ELSE CHOOSE i \in stops : \A j \in stops : i <= j
    IN  SubSeq(rest, 1, stop - 1)

\* The if / elif / else that extracts json_str from response_text.
json_str(text) ==
    IF HasJsonFence(text) THEN AfterFirst(text, {"fence_json"})
    ELSE IF HasFence(text) THEN AfterFirst(text, {"fence", "fence_json"})
    ELSE text

\* json.loads: one JSON document and nothing else parses; the rest raises.
json_loads(str) ==
    IF Len(str) = 1 /\ str[1].tok = "json"
    THEN [raised |-> FALSE, value |-> str[1].val]
    ELSE [raised |-> TRUE, value |-> NoAnalysis]

\* initialize_gemini: whether a key is configured.
initialize_gemini == settings.gemini_api_key

\* analyze_with_gemini: the value returned for what the model did.
analyze_with_gemini(sector, outcome) ==
    IF ~initialize_gemini THEN generate_mock_analysis(sector)
    ELSE IF outcome.fail THEN generate_mock_analysis(sector)
    ELSE LET parsed == json_loads(json_str(outcome.text))
         IN  IF parsed.raised THEN generate_mock_analysis(sector)
             ELSE parsed.value

Min(a, b) == IF a < b THEN a ELSE b

\* analysis.get(key, default) in generate_markdown_report and analyze_sector
Get(analysis, key, default) == IF key \in analysis.keys THEN analysis[key] ELSE default

NoMarkdown == [heading |-> "", summary |-> <<>>, market_trends |-> <<>>,
               news |-> <<>>, trade_opportunities |-> <<>>, risks |-> <<>>]

\* market_data[:5] in generate_markdown_report
news_shown(market_data) == SubSeq(market_data, 1, Min(5, Len(market_data)))

\* generate_markdown_report: the sections of the document, in order. It
\* raises AttributeError when analysis has no .get (it is not an object).
generate_markdown_report(sector, analysis, market_data) ==
    IF analysis.type # "dict"
    THEN [raised |-> TRUE, error |-> "'list' object has no attribute 'get'",
          markdown |-> NoMarkdown]
    ELSE [raised |-> FALSE, error |-> "",
          markdown |->
            [heading             |-> Title(sector),
             summary             |-> Get(analysis, "summary", <<>>),
             market_trends       |-> Get(analysis, "market_trends", <<>>),
             news                |-> news_shown(market_data),
             trade_opportunities |-> Get(analysis, "trade_opportunities", <<>>),
             risks               |-> Get(analysis, "risks", <<>>)]]

-----------------------------------------------------------------------------
(* app/main.py and check_rate_limit of app/rate_limit.py *)

NoDetail == [msg |-> "", seconds |-> 0, error |-> ""]
NoReport == [sector |-> "", timestamp |-> 0, summary |-> <<>>, market_trends |-> <<>>,
             key_news |-> <<>>, trade_opportunities |-> <<>>, risks |-> <<>>,
             markdown_report |-> NoMarkdown]
NoResponse == [status |-> 0, detail |-> NoDetail, headers |-> {}, media |-> "",
               report |-> NoReport, content |-> NoMarkdown]
NoException == [status_code |-> 0, detail |-> NoDetail, headers |-> {}]

\* raise HTTPException(status_code=..., detail=..., headers=...)
HTTPException(status_code, detail, headers) ==
    [status_code |-> status_code, detail |-> detail, headers |-> headers]

\* http_exception_handler: JSONResponse(status_code=exc.status_code,
\* content={"detail": exc.detail}); exc.headers is not passed on.
http_exception_handler(exc) ==
    [status |-> exc.status_code, detail |-> exc.detail, headers |-> {},
     media |-> "application/json", report |-> NoReport, content |-> NoMarkdown]

check_rate_limit_silent(key, t) == [raised |-> FALSE, exc |-> NoException]

\* check_rate_limit: raises the 429 when is_rate_limited(key) is true.
check_rate_limit(key, t) ==
    IF is_rate_limited(key, t)
    THEN [raised |-> TRUE,
          exc |-> HTTPException(429,
                    [msg |-> "Rate limit exceeded. Try again in {seconds} seconds.",
                     seconds |-> settings.rate_limit_period, error |-> ""],
                    {<<"Retry-After", ToString(settings.rate_limit_period)>>})]
    ELSE [raised |-> FALSE, exc |-> NoException]

\* The sector names a caller sends, and sector.lower() on them.
SectorInputs == {"technology", "Banking", "crypto"}
lower(sector) == IF sector = "Banking" THEN "banking" ELSE sector

Endpoints == {"/analyze/{sector}", "/analyze/{sector}/markdown"}

key_news_last(market_data) ==
    SubSeq(market_data, Len(market_data) - Min(5, Len(market_data)) + 1, Len(market_data))

\* key_news=market_data[:5]
key_news(market_data) == SubSeq(market_data, 1, Min(5, Len(market_data)))

\* TradeOpportunity(**opp) raises a validation error on a missing field.
OpportunityRaises(opps) == \E i \in 1..Len(opps) : ~(OpportunityKeys \subseteq opps[i].keys)

\* Steps 3 and 4 of analyze_sector: the report, or the exception raised
\* inside the try block.
assemble(sector, analysis, market_data, t) ==
    LET md == generate_markdown_report(sector, analysis, market_data)
    IN  IF md.raised THEN [raised |-> TRUE, error |-> md.error, report |-> NoReport]
        ELSE IF OpportunityRaises(Get(analysis, "trade_opportunities", <<>>))
        THEN [raised |-> TRUE, error |-> "validation errors for TradeOpportunity",
              report |-> NoReport]
        ELSE [raised |-> FALSE, error |-> "",
              report |->
                [sector              |-> sector,
                 timestamp           |-> t,
                 summary             |-> Get(analysis, "summary", <<>>),
                 market_trends       |-> Get(analysis, "market_trends", <<>>),
                 key_news            |-> key_news(market_data),
                 trade_opportunities |-> Get(analysis, "trade_opportunities", <<>>),
                 risks               |-> Get(analysis, "risks", <<>>),
                 markdown_report     |-> md.markdown]]

\* except Exception as e: raise HTTPException(500, detail=f"Analysis failed: {str(e)}")
internal_error(error) ==
    HTTPException(500, [msg |-> "Analysis failed: {error}", seconds |-> 0, error |-> error], {})

\* What the caller of an endpoint receives for a report: the report, or
\* PlainTextResponse(content=analysis.markdown_report, headers=...) with the
\* file name made of the sector as it came in the path.
success(endpoint, path_sector, report) ==
    IF endpoint = "/analyze/{sector}"
    THEN [status |-> 200, detail |-> NoDetail, headers |-> {}, media |-> "application/json",
          report |-> report, content |-> NoMarkdown]
    ELSE [status |-> 200, detail |-> NoDetail,
          headers |-> {<<"Content-Disposition",
                         "attachment; filename=" \o path_sector \o "_analysis_{date}.md">>},
          media |-> "text/plain",
          report |-> NoReport, content |-> report.markdown_report]

IdleReq ==
    [pc |-> "idle", endpoint |-> "", path_sector |-> "", sector |-> "", token |-> NoToken, host |-> "",
     username |-> "", checks |-> 0, admitted |-> "", steps |-> <<>>,
     provider |-> NoProvider, market_data |-> <<>>, gemini |-> NoGemini,
     analysis |-> NoAnalysis, response |-> NoResponse]

Init ==
    /\ now = 0
    /\ settings \in SettingsSpace
    /\ requests = [k \in Keys |-> <<>>]
    /\ req = [s \in Slots |-> IdleReq]
    /\ log = [k \in Keys |-> <<>>]
    /\ arrivals = 0

Tick ==
    /\ now < MaxTime
    /\ now' = now + 1
    /\ UNCHANGED <<settings, requests, req, log, arrivals>>

\* analyze_sector up to the first await: input validation.
Receive(s, endpoint, sector, token, host, cap) ==
    /\ req[s].pc = "idle"
    /\ arrivals < cap
    /\ arrivals' = arrivals + 1
    /\ LET r == [IdleReq EXCEPT !.endpoint = endpoint, !.path_sector = sector,
                                !.sector = lower(sector),
                                !.token = token, !.host = host]
       IN  req' = [req EXCEPT ![s] =
             IF lower(sector) \notin AllowedSectors
             THEN [r EXCEPT !.pc = "done",
                            !.response = http_exception_handler(HTTPException(400,
                                [msg |-> "Sector not supported. Allowed sectors: ...",
                                 seconds |-> 0, error |-> ""], {}))]
             ELSE [r EXCEPT !.pc = "auth"]]
    /\ UNCHANGED <<now, settings, requests, log>>

\* await get_current_user(credentials.credentials), and the bare except.
Authenticate(s) ==
    /\ req[s].pc = "auth"
    /\ LET user == get_current_user(req[s].token)
       IN  req' = [req EXCEPT ![s] =
             IF user.raised
             THEN [@ EXCEPT !.pc = "done",
                            !.response = http_exception_handler(HTTPException(401,
                                [msg |-> "Invalid authentication credentials",
                                 seconds |-> 0, error |-> ""], {}))]
             ELSE [@ EXCEPT !.pc = "limit", !.username = user.username]]
    /\ UNCHANGED <<now, settings, requests, log, arrivals>>

\* check_rate_limit(request, user_identifier), outside the try block.
RateLimit(s) ==
    /\ req[s].pc = "limit"
    /\ LET key == user_identifier(req[s].username, req[s].host)
           limited == is_rate_limited(key, now)
           checked == check_rate_limit(key, now)
           r == [req[s] EXCEPT !.checks = @ + 1,
                               !.admitted = IF limited THEN "denied" ELSE "allowed",
                               !.steps = Append(@, "check_rate_limit")]
       IN  /\ requests' = requests_after(key, now)
           /\ log' = [log EXCEPT ![key] = Append(@, [t |-> now, allowed |-> ~limited])]
           /\ req' = [req EXCEPT ![s] =
                IF checked.raised
                THEN [r EXCEPT !.pc = "done", !.response = http_exception_handler(checked.exc)]
                ELSE [r EXCEPT !.pc = "fetch"]]
    /\ UNCHANGED <<now, settings, arrivals>>

\* Step 1: market_data = await search_market_data(sector_lower)
Fetch(s, outcome) ==
    /\ req[s].pc = "fetch"
    /\ LET found == search_market_data(req[s].sector, outcome)
           r == [req[s] EXCEPT !.provider = outcome,
                               !.steps = Append(@, "search_market_data")]
       IN  req' = [req EXCEPT ![s] =
             IF found.raised
             THEN [r EXCEPT !.pc = "done",
                            !.response = http_exception_handler(internal_error("search"))]
             ELSE [r EXCEPT !.pc = "analyze", !.market_data = found.market_data]]
    /\ UNCHANGED <<now, settings, requests, log, arrivals>>

\* Steps 2 to 4 and the except clause; the markdown endpoint then wraps
\* the report it got from analyze_sector.
Analyze(s, outcome) ==
    /\ req[s].pc = "analyze"
    /\ outcome.called = initialize_gemini
    /\ LET analysis == analyze_with_gemini(req[s].sector, outcome)
           built == assemble(req[s].sector, analysis, req[s].market_data, now)
       IN  req' = [req EXCEPT ![s] =
             [@ EXCEPT !.pc = "done",
                       !.gemini = outcome,
                       !.analysis = analysis,
                       !.steps = @ \o <<"analyze_with_gemini", "generate_markdown_report">>,
                       !.response =
                          IF built.raised
                          THEN http_exception_handler(internal_error(built.error))
                          ELSE success(req[s].endpoint, req[s].path_sector, built.report)]]
    /\ UNCHANGED <<now, settings, requests, log, arrivals>>

\* The response has been sent.
Deliver(s) ==
    /\ req[s].pc = "done"
    /\ req' = [req EXCEPT ![s] = IdleReq]
    /\ UNCHANGED <<now, settings, requests, log, arrivals>>

\* One request at a time, every behaviour of the two upstream providers.
Next ==
    \/ Tick
    \/ \E e \in Endpoints, sec \in SectorInputs, tok \in Tokens :
          Receive(1, e, sec, tok, "10.0.0.1", MaxSequential)
    \/ Authenticate(1)
    \/ RateLimit(1)
    \/ \E o \in ProviderOutcomes : Fetch(1, o)
    \/ \E o \in GeminiOutcomes \cup {NoGemini} : Analyze(1, o)
    \/ Deliver(1)

Spec == Init /\ [][Next]_vars

\* No key of the model configured: analyze_with_gemini never calls it.
InitNoKey == Init /\ ~settings.gemini_api_key

\* One request at a time, from two users at two addresses; the search
\* provider fails.
NextLimiter ==
    \/ Tick
    \/ \E tok \in Tokens, h \in Hosts :
          Receive(1, "/analyze/{sector}", "technology", tok, h, MaxChecks)
    \/ Authenticate(1)
    \/ RateLimit(1)
    \/ Fetch(1, ProviderFails)
    \/ Analyze(1, NoGemini)
    \/ Deliver(1)

SpecLimiter == InitNoKey /\ [][NextLimiter]_vars

\* Requests in flight together, their steps interleaved.
NextConcurrent ==
    \/ Tick
    \/ \E s \in Slots, tok \in Tokens :
          Receive(s, "/analyze/{sector}", "technology", tok, "10.0.0.1", MaxRequests)
    \/ \E s \in Slots : Authenticate(s)
    \/ \E s \in Slots : RateLimit(s)
    \/ \E s \in Slots : Fetch(s, ProviderFails)
    \/ \E s \in Slots : Analyze(s, NoGemini)
    \/ \E s \in Slots : Deliver(s)

SpecConcurrent == InitNoKey /\ [][NextConcurrent]_vars

-----------------------------------------------------------------------------
(* Properties *)

Quota == settings.rate_limit_requests
Window == settings.rate_limit_period

\* The check at index i of history L finds no admission still in its window.
Fresh(L, i) == \A j \in 1..(i - 1) : L[j].allowed => L[i].t - L[j].t >= Window

\* The admissions of L before index i that its window still holds.
OwnRecent(L, i) == {j \in 1..(i - 1) : L[j].allowed /\ L[i].t - L[j].t < Window}

\* C1: for every key, quota N and window W, of the checks that follow a
\* check with no timestamp left in its window and fall within W of it, the
\* first N are admitted and the (N+1)th is denied; a check made at least W
\* after every earlier admission is admitted.
C1_QuotaThenRecovery ==
    \A k \in Keys :
        LET L == log[k] IN
        /\ \A s \in 1..Len(L) : \A i \in s..Min(Len(L), s + Quota) :
              (Fresh(L, s) /\ L[i].t - L[s].t < Window) => (L[i].allowed <=> i < s + Quota)
        /\ \A i \in 1..Len(L) : Fresh(L, i) => L[i].allowed

\* A key used up its quota within one window, was denied, and was admitted
\* again once the window had passed.
C1_Witness ==
    \E k \in Keys :
        LET L == log[k] IN
        \E s \in 1..Len(L) : \E m \in 1..Len(L) :
            /\ Fresh(L, s)
            /\ s + Quota <= Len(L)
            /\ L[s + Quota].t - L[s].t < Window
            /\ ~L[s + Quota].allowed
            /\ m > s + Quota
            /\ L[m].allowed
            /\ L[m].t - L[s + Quota - 1].t >= Window

\* C2: with the requests in flight interleaved at their await points, the
\* check of a key is one step, and no key has more than N admissions in
\* the W ticks that end with any of its admissions.
C2_NeverOverQuota ==
    \A k \in Keys :
        LET L == log[k] IN
        \A i \in 1..Len(L) :
            L[i].allowed => Cardinality(OwnRecent(L, i)) + 1 <= Quota

\* Two requests of one key are past the limiter at the same tick, one
\* admitted and still running, the other denied.
C2_Witness ==
    \E s1 \in Slots, s2 \in Slots :
        /\ s1 # s2
        /\ req[s1].username = req[s2].username /\ req[s1].host = req[s2].host
        /\ req[s1].pc = "fetch" /\ req[s1].admitted = "allowed"
        /\ req[s2].pc = "done" /\ req[s2].admitted = "denied"
        /\ LET L == log[user_identifier(req[s1].username, req[s1].host)]
           IN  Len(L) >= 2 /\ L[Len(L)].t = L[Len(L) - 1].t

\* C3: a step that is not a check of key k leaves the timestamps stored
\* for k as they are, and a check of k is admitted exactly when fewer than
\* N of k's own admissions lie in its window.
C3_KeyIsolation ==
    [][/\ \A k \in Keys : log'[k] = log[k] => requests'[k] = requests[k]
       /\ \A k \in Keys : \A i \in 1..Len(log'[k]) :
             log'[k][i].allowed <=> Cardinality(OwnRecent(log'[k], i)) < Quota]_vars

\* Key a was denied, and key b was admitted after that within the window.
C3_Witness ==
    \E a \in Keys, b \in Keys :
        /\ a # b
        /\ \E i \in 1..Len(log[a]) : \E j \in 1..Len(log[b]) :
              /\ ~log[a][i].allowed
              /\ log[b][j].allowed
              /\ log[b][j].t >= log[a][i].t
              /\ log[b][j].t - log[a][i].t < Window
              /\ requests[a] # <<>>

\* The four parts of a report come from analysis a, which follows the schema.
TakenFrom(md, a) ==
    /\ Conforms(a)
    /\ md.summary = a.summary
    /\ md.market_trends = a.market_trends
    /\ md.trade_opportunities = a.trade_opportunities
    /\ md.risks = a.risks

\* The report a caller got with a 200, as the fields both endpoints carry.
Delivered(r) ==
    IF r.endpoint = "/analyze/{sector}" THEN r.response.report.markdown_report
    ELSE r.response.content

\* C4: search_market_data never raises and never returns an empty list,
\* whatever the sector and whatever the search provider does.
C4_FetchNeverEmpty ==
    \A s \in Slots :
        req[s].provider.called =>
            /\ ~search_market_data(req[s].sector, req[s].provider).raised
            /\ req[s].market_data # <<>>

\* C5: analyze_with_gemini returns the mock analysis (5 trends, 2
\* opportunities, 4 risks) when no key is configured, and also when the
\* model call fails, its text does not parse, or the parsed value does not
\* follow the schema of the prompt.
C5_AnalyzeFallsBackToMock ==
    \A s \in Slots :
        LET r == req[s]
            mock == generate_mock_analysis(r.sector)
            parsed == json_loads(json_str(r.gemini.text))
        IN  (r.pc = "done" /\ r.admitted = "allowed") =>
              /\ ~settings.gemini_api_key =>
                    /\ r.analysis = mock
                    /\ Len(r.analysis.market_trends) = 5
                    /\ Len(r.analysis.trade_opportunities) = 2
                    /\ Len(r.analysis.risks) = 4
              /\ (settings.gemini_api_key
                    /\ (r.gemini.fail \/ parsed.raised \/ ~Conforms(parsed.value)))
                 => r.analysis = mock

\* C6: an admitted request ends with a 200 whose summary, trends,
\* opportunities and risks all come from one analysis that follows the
\* schema or from the mock, whatever the two providers did.
C6_AdmittedGetsCompleteReport ==
    \A s \in Slots :
        LET r == req[s] IN
        (r.pc = "done" /\ r.admitted = "allowed") =>
            /\ r.response.status = 200
            /\ \/ TakenFrom(Delivered(r), generate_mock_analysis(r.sector))
               \/ /\ r.gemini.called /\ ~r.gemini.fail
                  /\ TakenFrom(Delivered(r), json_loads(json_str(r.gemini.text)).value)

\* The checks a request made, in the order of its steps.
LimiterFirst(r) ==
    /\ r.checks <= 1
    /\ r.steps # <<>> => r.steps[1] = "check_rate_limit"
    /\ \A i \in 2..Len(r.steps) : r.steps[i] # "check_rate_limit"
    /\ r.admitted = "denied" => r.steps = <<"check_rate_limit">>

\* C7 as stated: every request of the two endpoints consults the limiter
\* exactly once, before any step of the pipeline, and a denied request
\* runs no step of the pipeline.
C7_OncePerRequest ==
    \A s \in Slots :
        /\ LimiterFirst(req[s])
        /\ req[s].pc = "done" => req[s].checks = 1

\* C7, amended: the limiter is consulted exactly once by a request that
\* passed validation and authentication and not at all by a request
\* rejected by either (400, 401); the check comes before every step of the
\* pipeline, a denied request runs none of them, and no step other than
\* the check changes what the limiter recorded.
C7_OncePerAuthenticatedRequest ==
    [][/\ \A s \in Slots :
             /\ LimiterFirst(req'[s])
             /\ req'[s].pc = "done" =>
                   (req'[s].checks = 1 <=> req'[s].response.status \notin {400, 401})
             /\ req'[s].checks = 1 <=> req'[s].admitted # ""
       /\ (requests' # requests \/ log' # log) =>
             \E s \in Slots : req[s].pc = "limit" /\ req'[s].checks = req[s].checks + 1]_vars

\* A request of the markdown endpoint was admitted, its pipeline failed,
\* and its admission is in the limiter.
C7_Witness ==
    \E s \in Slots :
        /\ req[s].pc = "done"
        /\ req[s].endpoint = "/analyze/{sector}/markdown"
        /\ req[s].response.status = 500
        /\ req[s].checks = 1
        /\ req[s].steps = <<"check_rate_limit", "search_market_data",
                            "analyze_with_gemini", "generate_markdown_report">>
        /\ requests[user_identifier(req[s].username, req[s].host)] # <<>>

\* C8: key_news of a report has min(5, number of fetched records) entries
\* and is the start of the fetched list, in the order the search provider
\* gave them.
C8_KeyNewsIsPrefix ==
    \A s \in Slots :
        LET r == req[s]
            news == r.response.report.key_news
        IN  (r.pc = "done" /\ r.response.status = 200 /\ r.endpoint = "/analyze/{sector}") =>
              /\ Len(news) = Min(5, Len(r.market_data))
              /\ \A i \in 1..Len(news) : news[i] = r.market_data[i]
              /\ (~r.provider.fail /\ ~MappingRaises(r.provider.results)) =>
                    \A i \in 1..Len(news) : news[i].title = r.provider.results[i].title

\* A report built from more than five records that the provider did not
\* give in ascending order.
C8_Witness ==
    \E s \in Slots :
        /\ req[s].pc = "done"
        /\ req[s].response.status = 200
        /\ req[s].endpoint = "/analyze/{sector}"
        /\ Len(req[s].market_data) > 5
        /\ req[s].market_data[1].title # "1"
        /\ Len(req[s].response.report.key_news) = 5

\* C9: a denied check reaches the caller as a 429 that carries the
\* retry-after hint, equal to the configured window.
C9_DeniedCarriesRetryAfter ==
    \A s \in Slots :
        (req[s].pc = "done" /\ req[s].admitted = "denied") =>
            /\ req[s].response.status = 429
            /\ <<"Retry-After", ToString(Window)>> \in req[s].response.headers

\* C10: the 500 sent for an exception raised inside the pipeline is the
\* same whatever the exception: no text of it is in the response.
C10_InternalErrorIsGeneric ==
    \A s \in Slots :
        (req[s].pc = "done" /\ req[s].response.status = 500) =>
            req[s].response = http_exception_handler(internal_error(""))

\* The time of the oldest admission of L that the check at index d still
\* finds in its window.
OldestRetained(L, d) ==
    LET ts == {L[j].t : j \in OwnRecent(L, d)}
    IN  CHOOSE t \in ts : \A u \in ts : t <= u

\* The times of the admitted checks of L.
AdmittedTimes(L) == {L[j].t : j \in {i \in 1..Len(L) : L[i].allowed}}

\* C11: a denied check only purges: it leaves of the key's timestamps
\* those still in the window and adds none; every stored timestamp is the
\* time of an admitted check and at most N are stored; and after a denied
\* check, however many denied retries follow, the first check made W or
\* more after the oldest admission that denial retained is admitted.
C11_DeniedLeavesNoTrace ==
    [][/\ \A k \in Keys :
             (Len(log'[k]) = Len(log[k]) + 1 /\ ~log'[k][Len(log'[k])].allowed) =>
                 requests'[k] = SelectSeq(requests[k], LAMBDA t : now - t < Window)
       /\ \A k \in Keys :
             /\ Len(requests'[k]) <= Quota
             /\ \A i \in 1..Len(requests'[k]) : requests'[k][i] \in AdmittedTimes(log'[k])
             /\ Len(requests'[k]) <= Cardinality({i \in 1..Len(log'[k]) : log'[k][i].allowed})
       /\ \A k \in Keys :
             LET L == log'[k] IN
             \A d \in 1..Len(L) : \A i \in (d + 1)..Len(L) :
                 (/\ ~L[d].allowed
                  /\ L[i].t - OldestRetained(L, d) >= Window
                  /\ \A m \in (d + 1)..(i - 1) : L[m].t - OldestRetained(L, d) < Window)
                 => L[i].allowed]_vars

\* A key was denied, retried and was denied again, and was admitted by the
\* first check made once W had passed since its oldest retained admission.
C11_Witness ==
    \E k \in Keys :
        LET L == log[k] IN
        \E d \in 1..Len(L) : \E i \in 1..Len(L) :
            /\ i > d + 1
            /\ ~L[d].allowed
            /\ ~L[d + 1].allowed
            /\ L[i].allowed
            /\ L[i].t - OldestRetained(L, d) >= Window
            /\ \A m \in (d + 1)..(i - 1) : L[m].t - OldestRetained(L, d) < Window
            /\ Len(requests[k]) <= Quota

====
